---- MODULE Spec2Model ----
(***************************************************************************)
(* Model of src/main.py: a Flask user-account service with three request   *)
(* handlers (register, login, home) over one SQL table of User rows.       *)
(*                                                                         *)
(* Text is modelled as a sequence of one-character strings, so that the    *)
(* regular expression of is_valid_email is computed character by           *)
(* character.  A JSON field that is absent (data.get(...) returns None) is *)
(* the value None below.                                                   *)
(*                                                                         *)
(* register() touches the store twice: the SELECT of line 75 and the       *)
(* INSERT/COMMIT of lines 80-81.  The development server of line 136 is    *)
(* threaded, so other requests can run between the two; register is        *)
(* therefore two actions (RegisterCheck, RegisterInsert).  login() and     *)
(* home() touch the store at most once and are one action each.            *)
(***************************************************************************)
EXTENDS Integers, Sequences, FiniteSets

VARIABLES users, pc, pending, last

vars == <<users, pc, pending, last>>

-----------------------------------------------------------------------------
(* Bounds of the model *)

\* number of server threads handling requests at the same time
NumThreads == 2
\* number of distinct random salts generate_password_hash may draw
NumSalts == 2
\* longest e-mail text enumerated for the format check on its own (SpecEmail)
MaxEmailLen == 6

Threads == 1..NumThreads
Salts == 1..NumSalts

-----------------------------------------------------------------------------
(* Request values *)

None == <<"None">>

\* a field that is absent, or the empty string
Missing == { None, <<>> }

Usernames == { <<"j">>, <<"n">> }

Passwords == { <<"p">>, <<"q">> }

\* jc.m      no '@'
\* j@c.m     local-part@domain.tld, as in the documented example
\* j@c\.m    has a backslash before the dot
\* n@c\xm    has a backslash and no dot
Emails == { <<"j", "c", ".", "m">>,
            <<"j", "@", "c", ".", "m">>,
            <<"j", "@", "c", "\\", ".", "m">>,
            <<"n", "@", "c", "\\", "x", "m">> }

\* variant: only an absent field is refused (`x is None` for `not x`)
Falsy_NoneOnly(x) == x = None

\* Python truthiness of a field: `not x` holds for None and for ""
Falsy(x) == x = None \/ Len(x) = 0

-----------------------------------------------------------------------------
(* is_valid_email: re.match(r"[^@]+@[^@]+\\.[^@]+", email)                 *)
(* In the raw string, \\ is an escaped backslash (one literal backslash)   *)
(* and the dot after it is the unescaped any-character-but-newline.        *)
(* re.match anchors at the start only.                                     *)

NoAt(s, a, b) == \A k \in a..b : s[k] # "@"

is_valid_email(email) ==
    \E i \in 1..Len(email), j \in 1..Len(email) :
        /\ i + 2 <= j
        /\ j + 3 <= Len(email)
        /\ NoAt(email, 1, i)            \* [^@]+
        /\ email[i + 1] = "@"           \* @
        /\ NoAt(email, i + 2, j)        \* [^@]+
        /\ email[j + 1] = "\\"          \* \\  (a literal backslash)
        /\ email[j + 2] # "\n"          \* .   (any character but newline)
        /\ email[j + 3] # "@"           \* [^@]+ (one is enough for a prefix match)

-----------------------------------------------------------------------------
(* werkzeug.security: salted one-way hash and its verification *)

Code(ch) == CASE ch = "p" -> 1 [] ch = "q" -> 2 [] OTHER -> 3

RECURSIVE Digest(_, _)
Digest(salt, password) ==
    IF password = <<>> THEN salt
    ELSE Digest(salt, Tail(password)) * 4 + Code(Head(password))

generate_password_hash(password, salt) ==
    [method |-> "scrypt", salt |-> salt, digest |-> Digest(salt, password)]

check_password_hash(pwhash, password) ==
    Digest(pwhash.salt, password) = pwhash.digest

check_password(user, password) == check_password_hash(user.password_hash, password)

-----------------------------------------------------------------------------
(* The User table *)

\* variant: the store hands out the same id again
NextId_Reused(table) == 1

\* the id the store assigns to a new row (autoincrement, no row is ever deleted)
NextId(table) == Cardinality(table) + 1

User(id, username, email, password_hash) ==
    [id |-> id, username |-> username, email |-> email, password_hash |-> password_hash]

\* variant: `&` for `|` in the existence query
FilterUsernameOrEmail_And(table, username, email) ==
    { u \in table : u.username = username /\ u.email = email }

\* User.query.filter((User.username == username) | (User.email == email))
FilterUsernameOrEmail(table, username, email) ==
    { u \in table : u.username = username \/ u.email = email }

\* variant: the filter on the username is lost
FilterByUsername_All(table, username) == table

\* User.query.filter_by(username=username)
FilterByUsername(table, username) == { u \in table : u.username = username }

\* .first(): no row, or the first row returned (rows come back in id order)
NoUser == User(0, None, None, [method |-> "", salt |-> 0, digest |-> 0])

First(rows) ==
    IF rows = {} THEN NoUser
    ELSE CHOOSE u \in rows : \A v \in rows : u.id <= v.id

\* variant: the columns are declared without unique=True
UniqueViolation_Never(table, username, email) == FALSE

\* unique=True on the username and email columns: the INSERT is refused
UniqueViolation(table, username, email) ==
    \E u \in table : u.username = username \/ u.email = email

\* db.session.add(user)
SessionAdd(table, user) == table \cup {user}

-----------------------------------------------------------------------------
(* Responses: status code and the message of the JSON body *)

Response(op, username, email, password, status, body, queried) ==
    [op |-> op, username |-> username, email |-> email, password |-> password,
     status |-> status, body |-> body, queried |-> queried]

NoRequest == [username |-> None, email |-> None, password |-> None]

Init ==
    /\ users = {}
    /\ pc = [p \in Threads |-> "idle"]
    /\ pending = [p \in Threads |-> NoRequest]
    /\ last = Response("none", None, None, None, 0, "", FALSE)

\* variant: the existence query is made before the e-mail format is looked at
RegisterCheck_QueryFirst(p, username, email, password) ==
    /\ pc[p] = "idle"
    /\ IF Falsy(username) \/ Falsy(email) \/ Falsy(password)
       THEN /\ last' = Response("register", username, email, password,
                                400, "All fields are required", FALSE)
            /\ UNCHANGED <<users, pc, pending>>
       ELSE IF First(FilterUsernameOrEmail(users, username, email)) # NoUser
       THEN /\ last' = Response("register", username, email, password,
                                409, "Username or email already exists", TRUE)
            /\ UNCHANGED <<users, pc, pending>>
       ELSE IF ~ is_valid_email(email)
       THEN /\ last' = Response("register", username, email, password,
                                400, "Invalid email format", TRUE)
            /\ UNCHANGED <<users, pc, pending>>
       ELSE /\ pc' = [pc EXCEPT ![p] = "insert"]
            /\ pending' = [pending EXCEPT ![p] =
                   [username |-> username, email |-> email, password |-> password]]
            /\ last' = Response("register", username, email, password, 0, "", TRUE)
            /\ UNCHANGED users

\* register(), lines 64-76: validation and the existence query
RegisterCheck(p, username, email, password) ==
    /\ pc[p] = "idle"
    /\ IF Falsy(username) \/ Falsy(email) \/ Falsy(password)
       THEN /\ last' = Response("register", username, email, password,
                                400, "All fields are required", FALSE)
            /\ UNCHANGED <<users, pc, pending>>
       ELSE IF ~ is_valid_email(email)
       THEN /\ last' = Response("register", username, email, password,
                                400, "Invalid email format", FALSE)
            /\ UNCHANGED <<users, pc, pending>>
       ELSE IF First(FilterUsernameOrEmail(users, username, email)) # NoUser
       THEN /\ last' = Response("register", username, email, password,
                                409, "Username or email already exists", TRUE)
            /\ UNCHANGED <<users, pc, pending>>
       ELSE /\ pc' = [pc EXCEPT ![p] = "insert"]
            /\ pending' = [pending EXCEPT ![p] =
                   [username |-> username, email |-> email, password |-> password]]
            /\ last' = Response("register", username, email, password, 0, "", TRUE)
            /\ UNCHANGED users

\* register(), lines 78-83: hash, INSERT, COMMIT.  An IntegrityError raised by
\* the commit is not caught, so Flask answers 500.
RegisterInsert(p, salt) ==
    /\ pc[p] = "insert"
    /\ LET r == pending[p]
           hashed_pw == generate_password_hash(r.password, salt)
           user == User(NextId(users), r.username, r.email, hashed_pw)
       IN  IF UniqueViolation(users, r.username, r.email)
           THEN /\ last' = Response("register", r.username, r.email, r.password,
                                    500, "Internal Server Error", TRUE)
                /\ UNCHANGED users
           ELSE /\ users' = SessionAdd(users, user)
                /\ last' = Response("register", r.username, r.email, r.password,
                                    200, "User registered successfully", TRUE)
    /\ pc' = [pc EXCEPT ![p] = "idle"]
    /\ pending' = [pending EXCEPT ![p] = NoRequest]

\* variant: an unknown username gets an answer of its own
LoginDecision_Telling(user, password) ==
    IF user = NoUser THEN <<404, "User not found">>
    ELSE IF ~ check_password(user, password) THEN <<401, "Invalid credentials">>
    ELSE <<200, "Login successful">>

\* login(), lines 118-121: the decision once the row has been fetched
LoginDecision(user, password) ==
    IF user = NoUser \/ ~ check_password(user, password)
    THEN <<401, "Invalid credentials">>
    ELSE <<200, "Login successful">>

\* login(), lines 110-121
Login(p, username, password) ==
    /\ pc[p] = "idle"
    /\ IF Falsy(username) \/ Falsy(password)
       THEN last' = Response("login", username, None, password,
                             400, "Username and password required", FALSE)
       ELSE LET user == First(FilterByUsername(users, username))
                answer == LoginDecision(user, password)
            IN  last' = Response("login", username, None, password,
                                 answer[1], answer[2], TRUE)
    /\ UNCHANGED <<users, pc, pending>>

\* home(), lines 132-133
Home(p) ==
    /\ pc[p] = "idle"
    /\ last' = Response("home", None, None, None, 200, "Welcome to the Home Page!", FALSE)
    /\ UNCHANGED <<users, pc, pending>>

-----------------------------------------------------------------------------
(* Spec: the threaded server.  Requests carry non-empty fields; the e-mail *)
(* is any text of Emails, every registration asks for the password "p" and *)
(* logins try both passwords.                                              *)

\* a new request is handed to the first thread that is not busy
Accepts(p) == pc[p] = "idle" /\ \A q \in Threads : q < p => pc[q] # "idle"

Next ==
    \/ \E p \in Threads, username \in Usernames, email \in Emails :
           Accepts(p) /\ RegisterCheck(p, username, email, <<"p">>)
    \/ \E p \in Threads, salt \in Salts : RegisterInsert(p, salt)
    \/ \E p \in Threads, username \in Usernames, password \in Passwords :
           Accepts(p) /\ Login(p, username, password)
    \/ \E p \in Threads : Accepts(p) /\ Home(p)

Spec == Init /\ [][Next]_vars

-----------------------------------------------------------------------------
(* SpecSerial: one server thread, so requests are handled one after the    *)
(* other; fields may be absent or empty.                                   *)

NextSerial ==
    \/ \E username \in Usernames \cup Missing, email \in Emails \cup Missing,
          password \in Passwords \cup Missing :
           RegisterCheck(1, username, email, password)
    \/ \E salt \in Salts : RegisterInsert(1, salt)
    \/ \E username \in Usernames \cup Missing, password \in Passwords \cup Missing :
           Login(1, username, password)
    \/ Home(1)

SpecSerial == Init /\ [][NextSerial]_vars

-----------------------------------------------------------------------------
(* SpecEmail: one register request whose e-mail is any text of at most     *)
(* MaxEmailLen characters over Alphabet, handled by one thread.            *)

Alphabet == {"j", "@", ".", "\\"}

Texts == UNION { [1..n -> Alphabet] : n \in 0..MaxEmailLen }

InitEmail ==
    /\ users = {}
    /\ pc = [p \in Threads |-> "idle"]
    /\ pending = [p \in Threads |-> NoRequest]
    /\ \E email \in Texts :
           last = Response("received", <<"j">>, email, <<"p">>, 0, "", FALSE)

HandleReceived ==
    /\ last.op = "received"
    /\ RegisterCheck(1, last.username, last.email, last.password)

NextEmail ==
    \/ HandleReceived
    \/ \E salt \in Salts : RegisterInsert(1, salt)

SpecEmail == InitEmail /\ [][NextEmail]_vars

-----------------------------------------------------------------------------
(* Vocabulary of the properties *)

\* the documented shape <non-"@" chars>@<non-"@" chars>.<non-"@" chars>
LocalPartAtDomain(email) ==
    \E i \in 1..Len(email), j \in 1..Len(email) :
        /\ i + 2 <= j
        /\ j + 2 <= Len(email)
        /\ NoAt(email, 1, i)
        /\ email[i + 1] = "@"
        /\ NoAt(email, i + 2, j)
        /\ email[j + 1] = "."
        /\ NoAt(email, j + 2, Len(email))

AnyFieldMissing(r) == r.username \in Missing \/ r.email \in Missing
                          \/ r.password \in Missing

LoginFieldsGiven(r) == r.username \notin Missing /\ r.password \notin Missing

\* the step is lines 64-76 of a register request: `last` becomes that request
\* and no thread finishes an insert
IsRegisterCheckStep ==
    /\ last'.op = "register"
    /\ \A p \in Threads : pc[p] = "insert" => pc'[p] = "insert"

\* the step is lines 78-83 of thread p's register request
IsRegisterInsertStep(p) == pc[p] = "insert" /\ pc'[p] = "idle"

Taken(table, username, email) ==
    \E a \in table : a.username = username \/ a.email = email

\* the stored digest is the digest of this password under the stored salt
Verifies(a, password) ==
    Digest(a.password_hash.salt, password) = a.password_hash.digest

-----------------------------------------------------------------------------
\* C1: in every reachable state of the threaded server, no two stored accounts
\* share a username and no two stored accounts share an email.
C1_Uniqueness ==
    \A a \in users, b \in users :
        (a.username = b.username \/ a.email = b.email) => a = b

\* a thread has passed the existence query and is about to insert a username or
\* email that another thread has stored in the meantime
C1_Witness ==
    \E p \in Threads :
        /\ pc[p] = "insert"
        /\ Taken(users, pending[p].username, pending[p].email)

-----------------------------------------------------------------------------
\* C2: a register request with three non-empty fields, an email of the
\* local-part@domain shape and no stored account using its username or email is
\* not rejected (it goes on to the insert), and once it has answered 200 the
\* store holds an account of that username whose hash verifies the password, so
\* that a login with the same username and password succeeds.
C2_RegisterThenLogin ==
    [][ /\ ( /\ IsRegisterCheckStep
             /\ ~ AnyFieldMissing(last')
             /\ LocalPartAtDomain(last'.email)
             /\ ~ Taken(users, last'.username, last'.email) )
           => (last'.status = 0 /\ \E p \in Threads : pc'[p] = "insert" /\ pc[p] = "idle")
        /\ (last'.op = "register" /\ last'.status = 200)
           => LoginDecision(First(FilterByUsername(users', last'.username)),
                            last'.password)[1] = 200
      ]_vars

-----------------------------------------------------------------------------
\* C3: when a thread reaches its insert after another request has stored the
\* same username or email, the request is answered 409 (Conflict), not 500.
C3_RaceAnswersConflict ==
    [][ \A p \in Threads :
          (IsRegisterInsertStep(p) /\ Taken(users, pending[p].username, pending[p].email))
            => (last'.status = 409 /\ users' = users)
      ]_vars

-----------------------------------------------------------------------------
-----------------------------------------------------------------------------
\* C5: a login with non-empty username and password is answered 200 if and only
\* if an account of exactly that username is stored and the password verifies
\* against its hash; otherwise it is answered 401.
C5_LoginDecision ==
    (last.op = "login" /\ LoginFieldsGiven(last))
    => IF \E a \in users : a.username = last.username /\ Verifies(a, last.password)
       THEN last.status = 200
       ELSE last.status = 401

\* the username is stored, the password is not the registered one
C5_Witness ==
    /\ last.op = "login"
    /\ last.status = 401
    /\ \E a \in users : a.username = last.username /\ ~ Verifies(a, last.password)

-----------------------------------------------------------------------------
\* C6: of two consecutive logins with non-empty fields, one for a username that
\* is not stored and one for a stored username with a wrong password, the two
\* answers have the same status and the same body.
UnknownUserRun(r) ==
    /\ r.op = "login"
    /\ LoginFieldsGiven(r)
    /\ \A a \in users : a.username # r.username

WrongPasswordRun(r) ==
    /\ r.op = "login"
    /\ LoginFieldsGiven(r)
    /\ \E a \in users : a.username = r.username /\ ~ Verifies(a, r.password)

C6_NoEnumeration ==
    [][ ( \/ UnknownUserRun(last) /\ WrongPasswordRun(last')
          \/ WrongPasswordRun(last) /\ UnknownUserRun(last') )
        => (last'.status = last.status /\ last'.body = last.body)
      ]_vars

\* a login for a username that is not stored, while another username is
C6_Witness ==
    /\ UnknownUserRun(last)
    /\ last.status = 401
    /\ users # {}

-----------------------------------------------------------------------------
\* C7: a register request in which username, email or password is absent or
\* empty is answered 400 and the set of accounts is the same after it as before.
C7_MissingFieldNoMutation ==
    [][ (IsRegisterCheckStep /\ AnyFieldMissing(last'))
        => /\ last'.status = 400
           /\ last'.body = "All fields are required"
           /\ ~ last'.queried
           /\ users' = users
           /\ pc' = pc
      ]_vars

\* only the password is empty; the username is one the store holds
C7_Witness ==
    /\ last.op = "register"
    /\ last.status = 400
    /\ last.password = <<>>
    /\ last.username \notin Missing
    /\ is_valid_email(last.email)
    /\ users # {}

-----------------------------------------------------------------------------
\* C8: with non-empty fields, register answers 400 'Invalid email format'
\* exactly when the email does not have the local-part@domain shape.
C8_FormatCheckIsShape ==
    (last.op = "register" /\ ~ AnyFieldMissing(last))
    => ( (last.status = 400 /\ last.body = "Invalid email format")
         <=> ~ LocalPartAtDomain(last.email) )

-----------------------------------------------------------------------------
\* C9: every stored account stays stored with its id, username, email and
\* password hash unchanged; the store changes only by gaining one account, of
\* a fresh id, in the step in which a register request is answered 200.
C9_WriteOnce ==
    [][ /\ users \subseteq users'
        /\ \A a \in users, b \in users' : b.id = a.id => b = a
        /\ users' # users
           => /\ Cardinality(users' \ users) = 1
              /\ last'.op = "register"
              /\ last'.status = 200
              /\ \A b \in users' \ users :
                    /\ b.username = last'.username
                    /\ b.email = last'.email
                    /\ Verifies(b, last'.password)
      ]_vars

\* two accounts are stored and a later login or health check has been answered
C9_Witness ==
    /\ Cardinality(users) = 2
    /\ last.op \in {"login", "home"}

-----------------------------------------------------------------------------
\* C10: register rejects in the order missing field, email format, uniqueness:
\* a request that fails the format check is answered 400 also when its username
\* is stored, 409 is answered only to requests that passed both validations,
\* and the store is queried only for those.
C10_CheckOrder ==
    last.op = "register"
    => /\ AnyFieldMissing(last)
          => (last.status = 400 /\ last.body = "All fields are required")
       /\ (~ AnyFieldMissing(last) /\ ~ is_valid_email(last.email))
          => (last.status = 400 /\ last.body = "Invalid email format")
       /\ last.status = 409
          => (~ AnyFieldMissing(last) /\ is_valid_email(last.email))
       /\ last.queried
          => (~ AnyFieldMissing(last) /\ is_valid_email(last.email))

\* the email fails the format check and the username is stored
C10_Witness ==
    /\ last.op = "register"
    /\ ~ AnyFieldMissing(last)
    /\ ~ is_valid_email(last.email)
    /\ \E a \in users : a.username = last.username
    /\ last.status = 400

====
